---------------------------- MODULE Spec2Model ----------------------------
(***************************************************************************)
(* Translate-then-classify orchestration of the cross-lingual sentiment    *)
(* service (src/main.py): the two adapters translate_text and               *)
(* analyze_sentiment, the single-item handler analyze_sentiment_endpoint    *)
(* and the batch handler batch_analyze_sentiment.                           *)
(*                                                                          *)
(* Representation.  A Python str is a sequence of one-character strings.    *)
(* An Optional value is <<>> (None) or <<v>>.  The source_language None is  *)
(* the distinguished value NoneLang.  Clock readings are microseconds       *)
(* (the resolution of datetime); processing_time_ms is kept in hundredths   *)
(* of a millisecond (the unit of round(x, 2)), scores in units of 1e-5 and  *)
(* confidence in units of 1e-4 (the unit of round(x, 4)).  The external     *)
(* translator and classifier are environments: every call receives one of   *)
(* a small set of outcomes.  The timestamp field of a response (one more    *)
(* clock reading, formatted) is not represented.                            *)
(*                                                                          *)
(* The two handlers are "async def" without any await, so one request is    *)
(* handled to completion before the next one starts.                        *)
(***************************************************************************)
EXTENDS Integers, Sequences, FiniteSets, TLC

VARIABLES
    sentiment_analyzer, \* module global: Loaded or Unavailable (None)
    pc,                 \* "idle" | "batch" (in the for loop) | "responded"
    request,            \* the request being handled / last handled
    start_time,         \* batch: first clock reading
    idx,                \* batch: 1-based position of the for loop
    results,            \* batch: the results list
    response,           \* what the last finished handler returned or raised
    calls,              \* external calls made for the current request
    outcomes            \* per processed item: how its pipeline went

vars == <<sentiment_analyzer, pc, request, start_time, idx, results,
          response, calls, outcomes>>

---------------------------------------------------------------------------
(* Bounds of the exploration *)

MaxClock == 6
MaxBatch == 3
MaxRichBatch == 1

(* Program constant: text[:512] *)
MaxChars == 512

---------------------------------------------------------------------------
(* Values *)

Loaded == "loaded"
Unavailable == "None"
NoneLang == "None"

None == <<>>
Some(v) == <<v>>

Min(a, b) == IF a < b THEN a ELSE b

\* datetime.utcnow() is the wall clock: a later reading may be smaller
ClockReadings == {0, MaxClock - 1, MaxClock}

UpperChars == <<"A","B","C","D","E","F","G","H","I","J","K","L","M",
                "N","O","P","Q","R","S","T","U","V","W","X","Y","Z">>
LowerChars == <<"a","b","c","d","e","f","g","h","i","j","k","l","m",
                "n","o","p","q","r","s","t","u","v","w","x","y","z">>

\* str.lower(), character by character
LowerChar(c) ==
    IF \E i \in 1 .. 26 : UpperChars[i] = c
    THEN LowerChars[CHOOSE i \in 1 .. 26 : UpperChars[i] = c]
    ELSE c

lower(s) == [i \in 1 .. Len(s) |-> LowerChar(s[i])]

POSITIVE == <<"P","O","S","I","T","I","V","E">>
NEGATIVE == <<"N","E","G","A","T","I","V","E">>
NEUTRAL == <<"N","E","U","T","R","A","L">>
Mixed == <<"M","i","x","e","d">>
positive == <<"p","o","s","i","t","i","v","e">>
negative == <<"n","e","g","a","t","i","v","e">>
neutral == <<"n","e","u","t","r","a","l">>

\* a text of n characters whose content varies with the position
Fill(n, chars) == [i \in 1 .. n |-> chars[(i % Len(chars)) + 1]]

ShortText == <<"o","l","a">>
LongText == Fill(MaxChars + 1, <<"x","y","z">>)
ShortEnglish == <<"h","i">>
LongEnglish == Fill(MaxChars + 2, <<"u","v","w","q","r">>)

Languages == {"en", "auto", "es", NoneLang}

\* inputs and environment of the rich specification
RichTexts == {ShortText, LongText}
RichTranslations ==
    { [raised |-> TRUE, value |-> None],
      [raised |-> FALSE, value |-> None],
      [raised |-> FALSE, value |-> Some(ShortEnglish)],
      [raised |-> FALSE, value |-> Some(LongEnglish)] }
RichInferences ==
    { [raised |-> TRUE, label |-> <<>>, score |-> 0],
      [raised |-> FALSE, label |-> POSITIVE, score |-> 99987],
      [raised |-> FALSE, label |-> NEGATIVE, score |-> 51234],
      [raised |-> FALSE, label |-> NEUTRAL, score |-> 70005],
      [raised |-> FALSE, label |-> Mixed, score |-> 51234] }

\* inputs and environment of the batch specification
BatchTexts == {<<"a">>, <<"b">>}
BatchLanguages == {"en", "auto", "es"}
BatchTranslations ==
    { [raised |-> TRUE, value |-> None],
      [raised |-> FALSE, value |-> Some(<<"t">>)] }
BatchInferences ==
    { [raised |-> TRUE, label |-> <<>>, score |-> 0],
      [raised |-> FALSE, label |-> POSITIVE, score |-> 99987] }

SeqsUpTo(S, n) == UNION { [1 .. k -> S] : k \in 0 .. n }

---------------------------------------------------------------------------
(* Pure parts of the code *)

\* round(x, d) on a value given in tenths of the target unit.  A value
\* exactly half way is rounded by the binary representation of the float,
\* which goes either way: tie \in {0, 1} is the direction taken.
round(n, tie) ==
    IF n % 10 = 5 THEN (n \div 10) + tie ELSE (n + 5) \div 10

TieChoices(n) == IF n % 10 = 5 THEN {0, 1} ELSE {0}

\* variant: the text is submitted whole
Truncate_off(text) == text

\* text[:512]
Truncate(text) == SubSeq(text, 1, Min(Len(text), MaxChars))

\* variant: an unknown label is passed through as it is
label_map_raw(label) ==
    IF label = POSITIVE THEN positive
    ELSE IF label = NEGATIVE THEN negative
    ELSE IF label = NEUTRAL THEN neutral
    ELSE label

\* label_map.get(label, label.lower())
label_map(label) ==
    IF label = POSITIVE THEN positive
    ELSE IF label = NEGATIVE THEN negative
    ELSE IF label = NEUTRAL THEN neutral
    ELSE lower(label)

\* pydantic model SentimentResponse; source_language: str rejects None
SentimentResponse(text, sentiment, confidence, source_language, translated_text, processing_time_ms) ==
    [valid |-> source_language # NoneLang,
     value |-> [text |-> text,
                sentiment |-> sentiment,
                confidence |-> confidence,
                source_language |-> source_language,
                translated_text |-> translated_text,
                processing_time_ms |-> processing_time_ms]]

BatchSentimentResponse(res, total_processed, processing_time_ms) ==
    [kind |-> "batch",
     results |-> res,
     total_processed |-> total_processed,
     processing_time_ms |-> processing_time_ms]

HTTPException(status_code) == [kind |-> "error", status_code |-> status_code]

---------------------------------------------------------------------------
(* Adapters.  item is the position of the text in the request, kept in   *)
(* the call log only.                                                      *)

\* variant: with 'auto' the language found by the detection is reported
translate_text_detects(item, text, source_lang, ext) ==
    LET call == [fn |-> "translate", item |-> item, text |-> Some(text),
                 source |-> source_lang, raised |-> ext.raised,
                 returned |-> IF ext.raised THEN None ELSE Some(ext.value)]
    IN  IF ext.raised
        THEN [ok |-> FALSE, status_code |-> 500, translated |-> None,
              detected_lang |-> NoneLang, calls |-> <<call>>]
        ELSE [ok |-> TRUE, status_code |-> 200, translated |-> ext.value,
              detected_lang |-> IF source_lang # "auto" THEN source_lang
                                ELSE "it",
              calls |-> <<call>>]

\* variant: a failed translation is tried a second time
translate_text_retry(item, text, source_lang, ext) ==
    LET call == [fn |-> "translate", item |-> item, text |-> Some(text),
                 source |-> source_lang, raised |-> ext.raised,
                 returned |-> IF ext.raised THEN None ELSE Some(ext.value)]
    IN  IF ext.raised
        THEN [ok |-> FALSE, status_code |-> 500, translated |-> None,
              detected_lang |-> NoneLang, calls |-> <<call, call>>]
        ELSE [ok |-> TRUE, status_code |-> 200, translated |-> ext.value,
              detected_lang |-> IF source_lang # "auto" THEN source_lang
                                ELSE "auto",
              calls |-> <<call>>]

\* translate_text(text, source_lang); ext is what GoogleTranslator did
translate_text(item, text, source_lang, ext) ==
    LET call == [fn |-> "translate", item |-> item, text |-> Some(text),
                 source |-> IF source_lang = "auto" THEN "auto"
                            ELSE source_lang,
                 raised |-> ext.raised,
                 returned |-> IF ext.raised THEN None ELSE Some(ext.value)]
    IN  IF ext.raised
        THEN [ok |-> FALSE, status_code |-> 500, translated |-> None,
              detected_lang |-> NoneLang, calls |-> <<call>>]
        ELSE [ok |-> TRUE, status_code |-> 200, translated |-> ext.value,
              detected_lang |-> IF source_lang # "auto" THEN source_lang
                                ELSE "auto",
              calls |-> <<call>>]

\* the try block of analyze_sentiment; text is None when the translator
\* returned None (None[:512] raises TypeError before the model is called)
analyze_sentiment_try(item, text, ext) ==
    IF sentiment_analyzer # Loaded
    THEN [ok |-> FALSE, status_code |-> 503, sentiment |-> <<>>,
          confidence |-> 0, calls |-> <<>>]
    ELSE IF text = None
    THEN [ok |-> FALSE, status_code |-> 500, sentiment |-> <<>>,
          confidence |-> 0, calls |-> <<>>]
    ELSE LET call == [fn |-> "classify", item |-> item,
                      text |-> Some(Truncate(text[1])),
                      source |-> "en",
                      raised |-> ext.raised,
                      returned |-> IF ext.raised THEN None
                                   ELSE Some(ext.label)]
         IN  IF ext.raised
             THEN [ok |-> FALSE, status_code |-> 500, sentiment |-> <<>>,
                   confidence |-> 0, calls |-> <<call>>]
             ELSE [ok |-> TRUE, status_code |-> 200,
                   sentiment |-> label_map(ext.label),
                   confidence |-> ext.score, calls |-> <<call>>]

\* except Exception as e: raise HTTPException(status_code=500, ...)
\* HTTPException is an Exception, so the 503 raised in the try block is
\* caught here as well.
analyze_sentiment_except(r) ==
    IF r.ok THEN r ELSE [r EXCEPT !.status_code = 500]

analyze_sentiment(item, text, ext) ==
    analyze_sentiment_except(analyze_sentiment_try(item, text, ext))

---------------------------------------------------------------------------
(* Single-item handler: POST /api/v1/sentiment *)

\* what the log keeps of one item: working is the argument given to
\* analyze_sentiment (None when it was not called)
Outcome(translate, analyze, working, built) ==
    [translate |-> translate, analyze |-> analyze, working |-> working,
     built |-> built]

\* variant: English text goes through the translator as well
endpoint_translate_always(text, lang, tout) ==
    translate_text(1, text, lang, tout)

\* "if request.source_language == 'en': ... else: translate_text(...)"
endpoint_translate(text, lang, tout) ==
    IF lang = "en"
    THEN [ok |-> TRUE, status_code |-> 200, translated |-> Some(text),
          detected_lang |-> "en", calls |-> <<>>]
    ELSE translate_text(1, text, lang, tout)

\* "translated_text if request.source_language != 'en' else None"
endpoint_translated_field(lang, translated) ==
    IF lang # "en" THEN translated ELSE None

\* the try block; now0 and now1 are the two readings of datetime.utcnow(),
\* ctie and ttie the directions of the two round() calls
endpoint_try(text, lang, tout, cout, now0, now1, ctie, ttie) ==
    LET tr == endpoint_translate(text, lang, tout)
        an == analyze_sentiment(1, tr.translated, cout)
        processing_time == now1 - now0
        built == SentimentResponse(
                     text, an.sentiment, round(an.confidence, ctie),
                     tr.detected_lang,
                     endpoint_translated_field(lang, tr.translated),
                     round(processing_time, ttie))
        tstep == IF tr.calls = <<>> THEN "skipped" ELSE "ok"
    IN  IF ~tr.ok
        THEN [raised |-> TRUE, exc |-> "HTTPException",
              status_code |-> tr.status_code, value |-> None,
              calls |-> tr.calls,
              outcome |-> Outcome("raised", "not_called", None, FALSE)]
        ELSE IF ~an.ok
        THEN [raised |-> TRUE, exc |-> "HTTPException",
              status_code |-> an.status_code, value |-> None,
              calls |-> tr.calls \o an.calls,
              outcome |-> Outcome(tstep, "raised", Some(tr.translated),
                                  FALSE)]
        ELSE IF ~built.valid
        THEN [raised |-> TRUE, exc |-> "ValidationError",
              status_code |-> 0, value |-> None,
              calls |-> tr.calls \o an.calls,
              outcome |-> Outcome(tstep, "ok", Some(tr.translated), FALSE)]
        ELSE [raised |-> FALSE, exc |-> "", status_code |-> 200,
              value |-> Some(built.value),
              calls |-> tr.calls \o an.calls,
              outcome |-> Outcome(tstep, "ok", Some(tr.translated), TRUE)]

\* except HTTPException as e: raise e
\* except Exception as e: raise HTTPException(status_code=500, ...)
endpoint_except(r) ==
    IF ~r.raised THEN [kind |-> "single", body |-> r.value[1]]
    ELSE IF r.exc = "HTTPException" THEN HTTPException(r.status_code)
    ELSE HTTPException(500)

analyze_sentiment_endpoint(Texts, Langs, Translations, Inferences) ==
    /\ pc = "idle"
    /\ \E text \in Texts, lang \in Langs,
          tout \in Translations, cout \in Inferences,
          now0 \in ClockReadings, now1 \in ClockReadings :
       \E ctie \in TieChoices(cout.score),
          ttie \in TieChoices(now1 - now0) :
          LET r == endpoint_try(text, lang, tout, cout, now0, now1,
                                ctie, ttie)
          IN  /\ request' = [kind |-> "single", texts |-> <<text>>,
                             source_language |-> lang]
              /\ response' = endpoint_except(r)
              /\ calls' = r.calls
              /\ outcomes' = <<r.outcome>>
              /\ start_time' = now0
    /\ pc' = "responded"
    /\ results' = <<>>
    /\ idx' = 1
    /\ UNCHANGED sentiment_analyzer

---------------------------------------------------------------------------
(* Batch handler: POST /api/v1/sentiment/batch *)

\* "if request.source_language == 'en': ... else: translate_text(...)"
batch_translate(item, text, lang, tout) ==
    IF lang = "en"
    THEN [ok |-> TRUE, status_code |-> 200, translated |-> Some(text),
          detected_lang |-> "en", calls |-> <<>>]
    ELSE translate_text(item, text, lang, tout)

\* "translated_text if request.source_language != 'en' else None"
batch_translated_field(lang, translated) ==
    IF lang # "en" THEN translated ELSE None

\* the try block of one iteration of the for loop
batch_try(item, text, lang, tout, cout, now0, now1, ctie, ttie) ==
    LET tr == batch_translate(item, text, lang, tout)
        an == analyze_sentiment(item, tr.translated, cout)
        individual_time == now1 - now0
        built == SentimentResponse(
                     text, an.sentiment, round(an.confidence, ctie),
                     tr.detected_lang,
                     batch_translated_field(lang, tr.translated),
                     round(individual_time, ttie))
        tstep == IF tr.calls = <<>> THEN "skipped" ELSE "ok"
    IN  IF ~tr.ok
        THEN [raised |-> TRUE, exc |-> "HTTPException",
              status_code |-> tr.status_code, value |-> None,
              calls |-> tr.calls,
              outcome |-> Outcome("raised", "not_called", None, FALSE)]
        ELSE IF ~an.ok
        THEN [raised |-> TRUE, exc |-> "HTTPException",
              status_code |-> an.status_code, value |-> None,
              calls |-> tr.calls \o an.calls,
              outcome |-> Outcome(tstep, "raised", Some(tr.translated),
                                  FALSE)]
        ELSE IF ~built.valid
        THEN [raised |-> TRUE, exc |-> "ValidationError",
              status_code |-> 0, value |-> None,
              calls |-> tr.calls \o an.calls,
              outcome |-> Outcome(tstep, "ok", Some(tr.translated), FALSE)]
        ELSE [raised |-> FALSE, exc |-> "", status_code |-> 200,
              value |-> Some(built.value),
              calls |-> tr.calls \o an.calls,
              outcome |-> Outcome(tstep, "ok", Some(tr.translated), TRUE)]

\* variant: the exception of a failed item is not caught
batch_except_reraise(r) == r

\* variant: a failed item leaves an error entry in the results
batch_except_tombstone(r) ==
    IF r.raised
    THEN [r EXCEPT !.raised = FALSE,
                   !.value = Some([text |-> <<>>,
                                   sentiment |-> <<"e","r","r","o","r">>,
                                   confidence |-> 0,
                                   source_language |-> "",
                                   translated_text |-> None,
                                   processing_time_ms |-> 0])]
    ELSE r

\* except Exception as e: log and continue.  Nothing is re-raised: the
\* iteration ends normally with nothing appended.
batch_except(r) ==
    IF r.raised THEN [r EXCEPT !.raised = FALSE, !.value = None] ELSE r

\* start_time = datetime.utcnow(); results = []; the loop is entered
batch_begin(Texts, Langs, MaxLen) ==
    /\ pc = "idle"
    /\ \E texts \in SeqsUpTo(Texts, MaxLen), lang \in Langs,
          now \in ClockReadings :
          /\ request' = [kind |-> "batch", texts |-> texts,
                         source_language |-> lang]
          /\ start_time' = now
    /\ pc' = "batch"
    /\ idx' = 1
    /\ results' = <<>>
    /\ response' = [kind |-> "none"]
    /\ calls' = <<>>
    /\ outcomes' = <<>>
    /\ UNCHANGED sentiment_analyzer

\* one iteration of "for text in request.texts"
batch_iteration(Translations, Inferences) ==
    /\ pc = "batch"
    /\ idx <= Len(request.texts)
    /\ \E tout \in Translations, cout \in Inferences,
          now0 \in ClockReadings, now1 \in ClockReadings :
       \E ctie \in TieChoices(cout.score),
          ttie \in TieChoices(now1 - now0) :
          LET r == batch_except(
                       batch_try(idx, request.texts[idx],
                                 request.source_language, tout, cout,
                                 now0, now1, ctie, ttie))
          IN  /\ calls' = calls \o r.calls
              /\ outcomes' = Append(outcomes, r.outcome)
              /\ IF r.raised
                 THEN \* an exception leaves the handler
                      /\ pc' = "responded"
                      /\ response' = HTTPException(500)
                      /\ UNCHANGED <<results, idx>>
                 ELSE /\ results' = results \o r.value
                      /\ idx' = idx + 1
                      /\ UNCHANGED <<pc, response>>
    /\ UNCHANGED <<sentiment_analyzer, request, start_time>>

\* variant: total_processed counts the texts of the request
batch_return_counts_inputs ==
    /\ pc = "batch"
    /\ idx > Len(request.texts)
    /\ \E now \in ClockReadings :
       \E ttie \in TieChoices(now - start_time) :
          response' = BatchSentimentResponse(
                          results, Len(request.texts),
                          round(now - start_time, ttie))
    /\ pc' = "responded"
    /\ UNCHANGED <<sentiment_analyzer, request, start_time, idx, results,
                   calls, outcomes>>

\* after the loop: total_time and the response
batch_return ==
    /\ pc = "batch"
    /\ idx > Len(request.texts)
    /\ \E now \in ClockReadings :
       \E ttie \in TieChoices(now - start_time) :
          response' = BatchSentimentResponse(
                          results, Len(results),
                          round(now - start_time, ttie))
    /\ pc' = "responded"
    /\ UNCHANGED <<sentiment_analyzer, request, start_time, idx, results,
                   calls, outcomes>>

---------------------------------------------------------------------------
\* the response is sent and the handler's frame is gone; the only state
\* that outlives a request is the module global sentiment_analyzer
deliver ==
    /\ pc = "responded"
    /\ pc' = "idle"
    /\ request' = [kind |-> "none", texts |-> <<>>, source_language |-> "auto"]
    /\ start_time' = 0
    /\ idx' = 1
    /\ results' = <<>>
    /\ response' = [kind |-> "none"]
    /\ calls' = <<>>
    /\ outcomes' = <<>>
    /\ UNCHANGED sentiment_analyzer

---------------------------------------------------------------------------
\* module load: the pipeline() call succeeds or sentiment_analyzer = None
Init ==
    /\ sentiment_analyzer \in {Loaded, Unavailable}
    /\ pc = "idle"
    /\ request = [kind |-> "none", texts |-> <<>>, source_language |-> "auto"]
    /\ start_time = 0
    /\ idx = 1
    /\ results = <<>>
    /\ response = [kind |-> "none"]
    /\ calls = <<>>
    /\ outcomes = <<>>

\* any text, any language hint, the full environment; short batches
RichSingle ==
    analyze_sentiment_endpoint(RichTexts, Languages, RichTranslations,
                               RichInferences)
RichBatchBegin == batch_begin(RichTexts, Languages, MaxRichBatch)
RichBatchIteration == batch_iteration(RichTranslations, RichInferences)

Next ==
    \/ RichSingle
    \/ RichBatchBegin
    \/ RichBatchIteration
    \/ batch_return
    \/ deliver

Spec == Init /\ [][Next]_vars

\* longer batches over a smaller environment
LeanSingle ==
    analyze_sentiment_endpoint(BatchTexts, BatchLanguages,
                               BatchTranslations, BatchInferences)
LeanBatchBegin == batch_begin(BatchTexts, BatchLanguages, MaxBatch)
LeanBatchIteration == batch_iteration(BatchTranslations, BatchInferences)

BatchNext ==
    \/ LeanSingle
    \/ LeanBatchBegin
    \/ LeanBatchIteration
    \/ batch_return
    \/ deliver

BatchSpec == Init /\ [][BatchNext]_vars

---------------------------------------------------------------------------
(* Vocabulary of the properties *)

Finished == pc = "responded"
SingleDone == Finished /\ request.kind = "single"
BatchDone == Finished /\ request.kind = "batch"

Items == 1 .. Len(outcomes)
Built == { i \in Items : outcomes[i].built }

\* the results the handler has returned, or holds so far in the loop
Returned ==
    IF response.kind = "single" THEN <<response.body>>
    ELSE IF response.kind = "batch" THEN response.results
    ELSE results

\* position in Returned of the result of a successfully processed item
Rank(i) == Cardinality({ j \in Built : j <= i })

CallsOf(i, fn) == { k \in 1 .. Len(calls) :
                      calls[k].item = i /\ calls[k].fn = fn }

\* the first min(Len(w), n) characters of w
Prefix(w, n) == [k \in 1 .. Min(Len(w), n) |-> w[k]]

Lang == request.source_language

---------------------------------------------------------------------------
\* C1: a batch request always ends with a normal batch response, whatever
\* fails for its items: no exception leaves the handler, every text is
\* visited, and when every item failed (in particular when the classifier
\* is unavailable) results is empty and total_processed is 0.
C1_BatchNeverFails ==
    BatchDone =>
        /\ response.kind = "batch"
        /\ Len(outcomes) = Len(request.texts)
        /\ (sentiment_analyzer = Unavailable => Built = {})
        /\ (Built = {} => /\ response.results = <<>>
                          /\ response.total_processed = 0)

C1_Witness ==
    /\ BatchDone
    /\ Len(request.texts) >= 2
    /\ sentiment_analyzer = Unavailable
    /\ response.kind = "batch"
    /\ response.total_processed = 0

\* C2 (as claimed): with the classifier unavailable, a single-item request
\* that reaches analyze_sentiment is answered with status 503.
C2_Unavailable503 ==
    (/\ SingleDone
     /\ sentiment_analyzer = Unavailable
     /\ outcomes[1].analyze # "not_called")
        => /\ response.kind = "error"
           /\ response.status_code = 503

\* C3: total_processed of a batch response is the length of its results,
\* the number of items processed successfully, and at most the number of
\* texts of the request.
C3_ProcessedCount ==
    BatchDone =>
        /\ response.kind = "batch"
        /\ response.total_processed = Len(response.results)
        /\ response.total_processed = Cardinality(Built)
        /\ response.total_processed <= Len(request.texts)

C3_Witness ==
    /\ BatchDone
    /\ response.kind = "batch"
    /\ response.total_processed > 0
    /\ response.total_processed < Len(request.texts)

\* C4: with source language "en", in the single-item and in the batch
\* handler, the translator is never called, analyze_sentiment is given the
\* original text (the classifier its first 512 characters), and every
\* result has source_language "en" and no translated_text.
C4_EnglishBypass ==
    (request.kind # "none" /\ Lang = "en") =>
        /\ \A k \in 1 .. Len(calls) : calls[k].fn # "translate"
        /\ \A i \in Items :
              /\ outcomes[i].translate = "skipped"
              /\ outcomes[i].working = Some(Some(request.texts[i]))
              /\ \A k \in CallsOf(i, "classify") :
                    calls[k].text =
                        Some(Prefix(request.texts[i], MaxChars))
        /\ \A i \in Built :
              /\ Returned[Rank(i)].source_language = "en"
              /\ Returned[Rank(i)].translated_text = None
              /\ Returned[Rank(i)].text = request.texts[i]

C4_Witness ==
    /\ SingleDone
    /\ Lang = "en"
    /\ response.kind = "single"
    /\ Len(calls) = 1
    /\ calls[1].fn = "classify"

\* C5: a successfully processed item with a source language other than
\* "en" had the translator called once with its text and the language
\* hint, analyze_sentiment called on what the translator returned, and its
\* result carries that translation and the hint itself as source_language
\* ("auto" stays "auto").
C5_TranslatedItem ==
    (request.kind # "none" /\ Lang # "en") =>
        \A i \in Built :
            /\ Cardinality(CallsOf(i, "translate")) = 1
            /\ Cardinality(CallsOf(i, "classify")) = 1
            /\ \A t \in CallsOf(i, "translate") :
                  /\ calls[t].text = Some(request.texts[i])
                  /\ calls[t].source = Lang
                  /\ ~calls[t].raised
                  /\ outcomes[i].working = calls[t].returned
                  /\ Returned[Rank(i)].translated_text = calls[t].returned[1]
                  /\ \A k \in CallsOf(i, "classify") :
                        /\ t < k
                        /\ calls[k].text =
                              Some(Prefix(calls[t].returned[1][1], MaxChars))
            /\ Returned[Rank(i)].source_language = Lang
            /\ Returned[Rank(i)].text = request.texts[i]

C5_Witness ==
    /\ BatchDone
    /\ Lang = "auto"
    /\ Built # {}
    /\ response.kind = "batch"
    /\ response.results[1].source_language = "auto"
    /\ response.results[1].translated_text = Some(LongEnglish)

\* C6: nothing is retried.  For one item the translator is called at most
\* once and the classifier at most once, a call that raised is the last
\* call made for its item, and an item whose translation failed never
\* reaches the classifier.
C6_NoRetry ==
    /\ \A k \in 1 .. Len(calls) : calls[k].item \in Items
    /\ \A i \in Items :
          /\ Cardinality(CallsOf(i, "translate")) <= 1
          /\ Cardinality(CallsOf(i, "classify")) <= 1
          /\ (outcomes[i].translate = "raised" =>
                 /\ outcomes[i].analyze = "not_called"
                 /\ CallsOf(i, "classify") = {})
    /\ \A k \in 1 .. Len(calls) :
          calls[k].raised =>
              \A m \in 1 .. Len(calls) :
                  m > k => calls[m].item # calls[k].item

C6_Witness ==
    /\ request.kind = "batch"
    /\ \E i \in Items :
          /\ outcomes[i].translate = "raised"
          /\ Cardinality(CallsOf(i, "translate")) = 1
    /\ \E i \in Items :
          /\ outcomes[i].analyze = "raised"
          /\ Cardinality(CallsOf(i, "classify")) = 1

\* C7: what is submitted to the classifier is the first min(len, 512)
\* characters of the working text, so never more than 512 characters; a
\* longer working text is clipped, not rejected: when the classifier
\* answers, the item gets its result, whose text is the whole original.
C7_Clipped ==
    /\ \A k \in 1 .. Len(calls) :
          calls[k].fn = "classify" =>
              /\ Len(calls[k].text[1]) <= MaxChars
              /\ calls[k].text[1] =
                    Prefix(outcomes[calls[k].item].working[1][1], MaxChars)
    /\ \A i \in Items :
          (/\ Lang # NoneLang
           /\ \E k \in CallsOf(i, "classify") : ~calls[k].raised)
              => /\ i \in Built
                 /\ Returned[Rank(i)].text = request.texts[i]

C7_Witness ==
    /\ SingleDone
    /\ response.kind = "single"
    /\ request.texts[1] = LongText
    /\ response.body.text = LongText
    /\ Len(outcomes[1].working[1][1]) > MaxChars
    /\ Len(calls[Len(calls)].text[1]) = MaxChars

\* the image of a raw label, as the claim states it
C8_Image(label) ==
    CASE label = POSITIVE -> positive
      [] label = NEGATIVE -> negative
      [] label = NEUTRAL -> neutral
      [] OTHER -> lower(label)

\* C8: the sentiment of every result is the image of the label the
\* classifier returned for that item: POSITIVE, NEGATIVE and NEUTRAL map
\* to positive, negative and neutral, any other label to its lower case.
C8_LabelMapping ==
    request.kind # "none" =>
        \A i \in Built :
            /\ Cardinality(CallsOf(i, "classify")) = 1
            /\ \A k \in CallsOf(i, "classify") :
                  /\ ~calls[k].raised
                  /\ Returned[Rank(i)].sentiment =
                        C8_Image(calls[k].returned[1])

C8_Witness ==
    /\ SingleDone
    /\ response.kind = "single"
    /\ calls[Len(calls)].returned = Some(Mixed)
    /\ response.body.sentiment = <<"m","i","x","e","d">>

\* C9: the results of a batch are its texts restricted to the items whose
\* translation and classification both succeeded, in input order, each
\* with its own text and with the result its own calls determine; a
\* failed item leaves no entry and every item is processed whatever
\* happened to the others.
C9_FailureIsolation ==
    request.kind = "batch" =>
        /\ (pc = "batch" => Len(outcomes) = idx - 1)
        /\ (BatchDone => Len(outcomes) = Len(request.texts))
        /\ Len(Returned) = Cardinality(Built)
        /\ \A i \in Items :
              /\ i \in Built <=>
                    /\ outcomes[i].translate \in {"skipped", "ok"}
                    /\ outcomes[i].analyze = "ok"
              /\ (Lang # "en" => Cardinality(CallsOf(i, "translate")) = 1)
              /\ (Cardinality(CallsOf(i, "classify")) = 1 <=>
                    /\ sentiment_analyzer = Loaded
                    /\ outcomes[i].translate \in {"skipped", "ok"})
        /\ \A i \in Built :
              /\ Returned[Rank(i)].text = request.texts[i]
              /\ Returned[Rank(i)].source_language = Lang
              /\ \A k \in CallsOf(i, "classify") :
                    Returned[Rank(i)].sentiment =
                        C8_Image(calls[k].returned[1])
              /\ \A t \in CallsOf(i, "translate") :
                    Returned[Rank(i)].translated_text = calls[t].returned[1]

C9_Witness ==
    /\ BatchDone
    /\ response.kind = "batch"
    /\ Len(request.texts) = 3
    /\ Built = {1, 3}
    /\ request.texts[1] # request.texts[3]
    /\ response.results[2].text = request.texts[3]

\* C10 (as claimed): every reported processing_time_ms is non-negative.
C10_NonNegativeTime ==
    /\ \A n \in 1 .. Len(Returned) : Returned[n].processing_time_ms >= 0
    /\ (response.kind = "batch" => response.processing_time_ms >= 0)

=============================================================================
